---- MODULE Spec2Model ----
(***************************************************************************)
(* Model of the single-use access code voting service (main.go,            *)
(* migrate.sql): the voters table, the vote window, the /vote handler      *)
(* (voteHandler), the /admin handler (adminHandler) and basicAuthValid.    *)
(*                                                                         *)
(* Strings that the code trims or compares (codes, choices) are sequences  *)
(* of one-character strings; instants are integers; a nullable column is   *)
(* a record with a Valid flag, as sql.NullTime and sql.NullString are.     *)
(***************************************************************************)
EXTENDS Integers, Sequences, FiniteSets, TLC

(* ------------------------------ bounds --------------------------------- *)

\* Number of concurrent /vote requests.
NumHandlers == 2

\* The clock runs over the instants 0..MaxTime.
MaxTime == 2

\* Number of rows of the seed that are provisioned in the voters table.
NumVoters == 2

Handlers == 1..NumHandlers

(* ------------------------------ strings -------------------------------- *)

Ht67h == <<"H", "t", "6", "7", "h">>
Ab12X == <<"A", "b", "1", "2", "X">>
Z9yQ1 == <<"Z", "9", "y", "Q", "1">>
ZZZZZ == <<"Z", "Z", "Z", "Z", "Z">>

Setuju == <<"s", "e", "t", "u", "j", "u">>
TidakSetuju == <<"t", "i", "d", "a", "k", " ", "s", "e", "t", "u", "j", "u">>
Abstain == <<"a", "b", "s", "t", "a", "i", "n">>

\* The white space strings.TrimSpace removes (the characters used here).
Space == {" ", "\t", "\n"}

RECURSIVE TrimLeft(_)
TrimLeft(s) ==
    IF s # <<>> /\ Head(s) \in Space THEN TrimLeft(Tail(s)) ELSE s

RECURSIVE TrimRight(_)
TrimRight(s) ==
    IF s # <<>> /\ s[Len(s)] \in Space
    THEN TrimRight(SubSeq(s, 1, Len(s) - 1))
    ELSE s

\* strings.TrimSpace: leading and trailing white space removed, inner kept.
TrimSpace(s) == TrimRight(TrimLeft(s))

\* Form values a /vote request may carry in "code" and in "choice".
RawCodes == {Ht67h, <<" ">> \o Ab12X \o <<"\n">>, ZZZZZ, <<" ", "\t">>}
RawChoices == {Setuju, <<" ">> \o TidakSetuju \o <<" ">>, Abstain, <<>>}

Methods == {"POST", "GET"}

(* --------------------------- the voters table -------------------------- *)

\* sql.NullTime and sql.NullString: Valid = FALSE is SQL NULL.
NullTime == [Valid |-> FALSE, Time |-> 0]
NullString == [Valid |-> FALSE, String |-> <<>>]
TimeOf(t) == [Valid |-> TRUE, Time |-> t]
StringOf(s) == [Valid |-> TRUE, String |-> s]

\* The seed of migrate.sql, in insertion order (id is the position).
Seed == << [code |-> Ht67h, name |-> "Titus Prasetyo"],
           [code |-> Ab12X, name |-> "Budi Santoso"],
           [code |-> Z9yQ1, name |-> "Siti Nurhayati"] >>

\* A row as INSERT INTO voters (code, name) leaves it: the column defaults.
NewRow(i) ==
    [id |-> i, code |-> Seed[i].code, name |-> Seed[i].name,
     used |-> FALSE, used_at |-> NullTime, vote_choice |-> NullString]

Provisioned == [i \in 1..NumVoters |-> NewRow(i)]

\* Faulty variant of Matches: the WHERE clause without "AND used = FALSE".
MatchesUnguarded(v, code) == {i \in DOMAIN v : v[i].code = code}

\* The rows the WHERE clause of the conditional UPDATE selects.
Matches(v, code) == {i \in DOMAIN v : v[i].code = code /\ v[i].used = FALSE}

\* Faulty variant of SetRow: the SET clause without "used_at = NOW()".
SetRowNoTime(row, choice, t) ==
    [row EXCEPT !.used = TRUE, !.vote_choice = StringOf(choice)]

\* The SET clause applied to one row at the store's instant t.
SetRow(row, choice, t) ==
    [row EXCEPT !.used = TRUE, !.used_at = TimeOf(t),
                !.vote_choice = StringOf(choice)]

\* Faulty variant of Redeem: every row with the code is written, used or
\* not, while RowsAffected still counts the unused ones.
RedeemOverwrites(v, code, choice, t) ==
    [i \in DOMAIN v |->
        IF v[i].code = code THEN SetRow(v[i], choice, t) ELSE v[i]]

\* UPDATE voters SET ... WHERE code = $2 AND used = FALSE, as one statement.
Redeem(v, code, choice, t) ==
    [i \in DOMAIN v |->
        IF i \in Matches(v, code) THEN SetRow(v[i], choice, t) ELSE v[i]]

RowsAffected(v, code) == Cardinality(Matches(v, code))

\* Faulty variants of Exists: only unused rows are looked at; the answer
\* is always true.
ExistsUnusedOnly(v, code) == \E i \in DOMAIN v : v[i].code = code /\ ~v[i].used
ExistsAlways(v, code) == TRUE

\* SELECT EXISTS(SELECT 1 FROM voters WHERE code=$1)
Exists(v, code) == \E i \in DOMAIN v : v[i].code = code

(* ---------------------------- basicAuthValid --------------------------- *)

\* Credentials are strings over a three letter alphabet; the header carries
\* their bytes. Byte values of the letters.
Ascii == [c \in {"a", "b", ":"} |-> IF c = "a" THEN 97 ELSE IF c = "b" THEN 98 ELSE 58]
Bytes(s) == [i \in 1..Len(s) |-> Ascii[s[i]]]
Colon == 58

\* A character of the base64 text is its index in the standard alphabet,
\* 0..63; Pad is '=' and Illegal a character outside the alphabet.
Pad == 64
Illegal == 65

\* base64.StdEncoding, encoding (what a client does to build the header).
RECURSIVE B64Encode(_)
B64Encode(b) ==
    IF Len(b) = 0 THEN <<>>
    ELSE IF Len(b) = 1
    THEN <<b[1] \div 4, (b[1] % 4) * 16, Pad, Pad>>
    ELSE IF Len(b) = 2
    THEN <<b[1] \div 4, (b[1] % 4) * 16 + (b[2] \div 16), (b[2] % 16) * 4, Pad>>
    ELSE <<b[1] \div 4, (b[1] % 4) * 16 + (b[2] \div 16),
           (b[2] % 16) * 4 + (b[3] \div 64), b[3] % 64>>
         \o B64Encode(SubSeq(b, 4, Len(b)))

\* One quantum of four characters decoded; last says it is the final one,
\* the only place padding is accepted.
B64Quantum(q, last) ==
    IF \A k \in 1..4 : q[k] < Pad
    THEN [ok |-> TRUE,
          bytes |-> <<q[1] * 4 + (q[2] \div 16),
                      (q[2] % 16) * 16 + (q[3] \div 4),
                      (q[3] % 4) * 64 + q[4]>>]
    ELSE IF last /\ q[1] < Pad /\ q[2] < Pad /\ q[3] < Pad /\ q[4] = Pad
    THEN [ok |-> TRUE,
          bytes |-> <<q[1] * 4 + (q[2] \div 16),
                      (q[2] % 16) * 16 + (q[3] \div 4)>>]
    ELSE IF last /\ q[1] < Pad /\ q[2] < Pad /\ q[3] = Pad /\ q[4] = Pad
    THEN [ok |-> TRUE, bytes |-> <<q[1] * 4 + (q[2] \div 16)>>]
    ELSE [ok |-> FALSE, bytes |-> <<>>]

\* base64.StdEncoding.DecodeString: the bytes, or an error (ok = FALSE) on a
\* length that is no multiple of four, a character outside the alphabet or
\* misplaced padding.
RECURSIVE B64Decode(_)
B64Decode(s) ==
    IF Len(s) = 0 THEN [ok |-> TRUE, bytes |-> <<>>]
    ELSE IF Len(s) < 4 THEN [ok |-> FALSE, bytes |-> <<>>]
    ELSE LET q == B64Quantum(SubSeq(s, 1, 4), Len(s) = 4)
             rest == B64Decode(SubSeq(s, 5, Len(s)))
         IN  IF q.ok /\ rest.ok
             THEN [ok |-> TRUE, bytes |-> q.bytes \o rest.bytes]
             ELSE [ok |-> FALSE, bytes |-> <<>>]

\* strings.SplitN(payload, ":", 2): split at the first colon, if any.
SplitN2(payload) ==
    LET at == {i \in 1..Len(payload) : payload[i] = Colon}
    IN  IF at = {} THEN <<payload>>
        ELSE LET i == CHOOSE i \in at : \A j \in at : i <= j
             IN  <<SubSeq(payload, 1, i - 1), SubSeq(payload, i + 1, Len(payload))>>

\* Faulty variant of basicAuthValid: the test for empty configured
\* credentials is missing.
basicAuthValidNoEmptyCheck(auth, user, pass) ==
    /\ ~(auth.prefix = "" /\ auth.body = <<>>)
    /\ auth.prefix = "Basic "
    /\ LET payload == B64Decode(auth.body)
       IN  /\ payload.ok
           /\ LET parts == SplitN2(payload.bytes)
              IN  /\ Len(parts) = 2
                  /\ parts[1] = Bytes(user) /\ parts[2] = Bytes(pass)

\* basicAuthValid(r, user, pass), auth being the Authorization header of r:
\* its first characters (prefix) and the rest (body). The header is absent
\* or empty when both are empty.
basicAuthValid(auth, user, pass) ==
    /\ ~(user = <<>> \/ pass = <<>>)
    /\ ~(auth.prefix = "" /\ auth.body = <<>>)
    /\ auth.prefix = "Basic "
    /\ LET payload == B64Decode(auth.body)
       IN  /\ payload.ok
           /\ LET parts == SplitN2(payload.bytes)
              IN  /\ Len(parts) = 2
                  /\ parts[1] = Bytes(user) /\ parts[2] = Bytes(pass)

\* Requests to /admin. A client that means to present (user, pass) sends
\* "Basic " followed by the base64 text of user:pass (a user name holds no
\* colon); the other requests carry the same credentials in a header the
\* handler must not accept.
UserNames == {<<>>, <<"a">>, <<"a", "b">>}
Passwords == {<<>>, <<"b">>, <<"b", ":", "a">>}

BasicRequest(u, p) ==
    [prefix |-> "Basic ", body |-> B64Encode(Bytes(u \o <<":">> \o p)),
     user |-> u, pass |-> p]
BearerRequest(u, p) ==
    [BasicRequest(u, p) EXCEPT !.prefix = "Bearer"]
TruncatedRequest(u, p) ==
    LET r == BasicRequest(u, p)
    IN  [r EXCEPT !.body = SubSeq(r.body, 1, Len(r.body) - 1)]
IllegalRequest(u, p) ==
    LET r == BasicRequest(u, p)
    IN  [r EXCEPT !.body = <<Illegal>> \o Tail(r.body)]
NoColonRequest(u, p) ==
    [BasicRequest(u, p) EXCEPT !.body = B64Encode(Bytes(u))]
NoHeaderRequest(u, p) ==
    [prefix |-> "", body |-> <<>>, user |-> u, pass |-> p]

Requests ==
    UNION {{BasicRequest(u, p), BearerRequest(u, p), TruncatedRequest(u, p),
            IllegalRequest(u, p), NoColonRequest(u, p), NoHeaderRequest(u, p)} :
           u \in UserNames, p \in Passwords}

(* ------------------------------- state --------------------------------- *)

VARIABLES
    now,        \* the clock: time.Now() in the handlers, NOW() in the store
    voteStart,  \* App.voteStart
    voteEnd,    \* App.voteEnd
    adminUser,  \* App.adminUser
    adminPass,  \* App.adminPass
    voters,     \* the voters table, rows in id order
    vote,       \* the /vote requests: position in voteHandler, locals, response
    admin,      \* the /admin request: position in adminHandler, locals, response
    look        \* the / requests: position in indexHandler, locals, response

config == <<voteStart, voteEnd, adminUser, adminPass>>
vars == <<now, voteStart, voteEnd, adminUser, adminPass, voters, vote, admin, look>>

\* Window configurations (VOTE_START, VOTE_END), one of them empty.
Windows == {<<1, 2>>, <<1, 1>>}

\* A /vote request before it arrives. rawCode and rawChoice are the form
\* values it carries, code and choice the handler's locals; err says that a
\* store call of the request returned an error; writes and queries count
\* the conditional UPDATEs and the EXISTS queries the request has issued.
IdleVote ==
    [pc |-> "idle", rawCode |-> <<>>, rawChoice |-> <<>>,
     code |-> <<>>, choice |-> <<>>, err |-> FALSE,
     writes |-> 0, queries |-> 0, outcome |-> "none"]

\* The /admin request before it arrives: the zero values of the locals.
\* queries counts the queries the request has issued; scanFailedAt is the
\* position of the row of the list whose Scan returned an error, 0 if none
\* did (neither is a variable of the code).
IdleAdmin ==
    [pc |-> "idle", status |-> "none", request |-> NoHeaderRequest(<<>>, <<>>),
     TotalVoters |-> 0, VotedCount |-> 0, NotVotedCount |-> 0,
     SetujuCount |-> 0, TidakSetujuCount |-> 0,
     AllVoters |-> <<>>, VotedVoters |-> <<>>, NotVotedVoters |-> <<>>,
     usedAtTotal |-> 0, queries |-> 0, scanFailedAt |-> 0]

\* The / requests.
Lookups == {1, 2}

\* ViewData.Message: a text and, in the greeting, the name put into it.
Msg(text, arg) == [text |-> text, arg |-> arg]
NoMessage == Msg("", "")

\* A / request before it arrives: the zero values of ViewData and of the
\* locals. err is the result of the voters query ("none" before it ran);
\* seen (not a variable of the code) is the set of rows with the code that
\* the table held when the voters query ran.
IdleLook ==
    [pc |-> "idle", status |-> "none", code |-> <<>>,
     BeforeStart |-> FALSE, AfterEnd |-> FALSE,
     Name |-> "", AlreadyUsed |-> FALSE, HasVoted |-> FALSE,
     Message |-> NoMessage, err |-> "none", seen |-> {}]

\* The configured admin credentials of the specifications that fix them.
DefaultUser == <<"a", "b">>
DefaultPass == <<"b", ":", "a">>

\* The service after start-up with a freshly migrated table.
Init ==
    /\ now = 0
    /\ \E w \in Windows : voteStart = w[1] /\ voteEnd = w[2]
    /\ adminUser = DefaultUser
    /\ adminPass = DefaultPass
    /\ voters = Provisioned
    /\ vote = [h \in Handlers |-> IdleVote]
    /\ admin = IdleAdmin
    /\ look = [l \in Lookups |-> IdleLook]

\* Faulty variant of Responded: the response is written and the handler
\* goes on instead of returning.
RespondedNoReturn(v, h, outcome) == [v EXCEPT ![h].outcome = outcome]

\* The requests v with the response of request h sent and its handler
\* returned.
Responded(v, h, outcome) == [v EXCEPT ![h].pc = "done", ![h].outcome = outcome]

\* The response of a finished request.
Respond(h, outcome) == vote' = Responded(vote, h, outcome)

(* ------------------------------ the clock ------------------------------ *)

Tick ==
    /\ now < MaxTime
    /\ now' = now + 1
    /\ UNCHANGED <<config, voters, vote, admin, look>>

(* ------------------------------ voteHandler ---------------------------- *)

\* time.Now().Before(a.voteStart)
BeforeStart(t) == t < voteStart

\* time.Now().After(a.voteEnd)
AfterEnd(t) == t > voteEnd

\* Method check and the first window check.
VoteBegin(h, method) ==
    /\ vote[h].pc = "idle"
    /\ IF method # "POST" THEN Respond(h, "MethodNotAllowed")
       ELSE IF BeforeStart(now) THEN Respond(h, "WindowClosed")
       ELSE vote' = [vote EXCEPT ![h].pc = "checkEnd"]
    /\ UNCHANGED <<now, config, voters, admin, look>>

\* The second window check (a second reading of the clock), then the form
\* values the request carries (rawCode, rawChoice) are read, trimmed and
\* tested for emptiness.
VoteCheckEnd(h, rawCode, rawChoice) ==
    /\ vote[h].pc = "checkEnd"
    /\ LET code == TrimSpace(rawCode)
           choice == TrimSpace(rawChoice)
           req == [vote EXCEPT ![h].rawCode = rawCode, ![h].rawChoice = rawChoice]
       IN  IF AfterEnd(now)
           THEN vote' = [req EXCEPT ![h].pc = "done", ![h].outcome = "WindowClosed"]
           ELSE IF code = <<>> \/ choice = <<>>
           THEN vote' = [req EXCEPT ![h].pc = "done", ![h].code = code,
                                    ![h].choice = choice,
                                    ![h].outcome = "InvalidInput"]
           ELSE vote' = [req EXCEPT ![h].pc = "exec", ![h].code = code,
                                    ![h].choice = choice]
    /\ UNCHANGED <<now, config, voters, admin, look>>

\* Faulty variant of AfterExec: the error of Exec is not looked at.
AfterExecIgnoresError(err, rows) ==
    IF rows = 0 THEN "exists" ELSE "Success"

\* What the handler does once Exec has returned (err, tag): the response
\* it sends, or "exists" when it goes on to the EXISTS query.
AfterExec(err, rows) ==
    IF err THEN "StoreError"
    ELSE IF rows = 0 THEN "exists"
    ELSE "Success"

\* The handler's state once Exec has returned.
Executed(h, err, rows) ==
    LET next == AfterExec(err, rows)
        sent == [vote EXCEPT ![h].err = err, ![h].writes = vote[h].writes + 1]
    IN  IF next = "exists"
        THEN [sent EXCEPT ![h].pc = "exists"]
        ELSE [sent EXCEPT ![h].pc = "done", ![h].outcome = next]

\* a.db.Exec of the conditional UPDATE returns without error.
VoteExec(h) ==
    /\ vote[h].pc = "exec"
    /\ voters' = Redeem(voters, vote[h].code, vote[h].choice, now)
    /\ vote' = Executed(h, FALSE, RowsAffected(voters, vote[h].code))
    /\ UNCHANGED <<now, config, admin, look>>

\* a.db.Exec returns an error. The statement either was not applied, or was
\* committed before the error reached the handler (the request context was
\* cancelled, the connection was lost): applied says which.
VoteExecError(h, applied) ==
    /\ vote[h].pc = "exec"
    /\ voters' = IF applied
                 THEN Redeem(voters, vote[h].code, vote[h].choice, now)
                 ELSE voters
    /\ vote' = Executed(h, TRUE, IF applied THEN RowsAffected(voters, vote[h].code) ELSE 0)
    /\ UNCHANGED <<now, config, admin, look>>

\* The follow-up EXISTS query returns without error.
VoteExists(h) ==
    /\ vote[h].pc = "exists"
    /\ LET asked == [vote EXCEPT ![h].queries = vote[h].queries + 1]
       IN  IF ~Exists(voters, vote[h].code)
           THEN vote' = Responded(asked, h, "CodeNotFound")
           ELSE vote' = Responded(asked, h, "AlreadyUsed")
    /\ UNCHANGED <<now, config, voters, admin, look>>

\* The follow-up EXISTS query returns an error.
VoteExistsError(h) ==
    /\ vote[h].pc = "exists"
    /\ vote' = [vote EXCEPT ![h].pc = "done", ![h].outcome = "StoreError",
                            ![h].err = TRUE, ![h].queries = vote[h].queries + 1]
    /\ UNCHANGED <<now, config, voters, admin, look>>

(* ------------------------------ indexHandler --------------------------- *)

IndexHtml == <<"i", "n", "d", "e", "x", ".", "h", "t", "m", "l">>

\* What a / request may carry: the URL path without its slashes, and the
\* query parameter "code".
LookPaths == {<<>>, Ht67h, IndexHtml}
LookQueryCodes == {<<>>, Ht67h, <<" ">> \o Ht67h, ZZZZZ}

\* The code the handler looks up: the query parameter if there is one, else
\* the path, trimmed.
LookCode(path, queryCode) ==
    TrimSpace(IF queryCode = <<>> /\ TrimSpace(path) # <<>> /\ TrimSpace(path) # IndexHtml
              THEN TrimSpace(path)
              ELSE queryCode)

\* A code in the path alone is redirected to the query form.
LookRedirects(path, queryCode) ==
    /\ TrimSpace(path) # <<>> /\ TrimSpace(path) # IndexHtml
    /\ LookCode(path, queryCode) # <<>>
    /\ queryCode = <<>>

\* The votes relation of "SELECT choice FROM votes WHERE code=$1": the schema
\* of migrate.sql creates no such table and no statement writes one, so the
\* query finds nothing in it.
votes == {}

\* SELECT name, used FROM voters WHERE code=$1: the rows found.
RowsOf(v, code) == {v[i] : i \in {j \in DOMAIN v : v[j].code = code}}

\* The request arrives: the code is taken from the URL, the clock is read
\* and the window message chosen. Without a code the page is rendered.
\* (The dash of the first message is written in ASCII here.)
LookupBegin(l, path, queryCode) ==
    /\ look[l].pc = "idle"
    /\ LET code == LookCode(path, queryCode)
           before == now < voteStart
           after == ~before /\ AfterEnd(now)
           data == [look[l] EXCEPT
                       !.code = code, !.BeforeStart = before, !.AfterEnd = after,
                       !.Message =
                           IF before
                           THEN Msg("Pemilihan belum dimulai - tunggu sampai waktu pembukaan.", "")
                           ELSE IF after THEN Msg("Pemilihan ditutup.", "")
                           ELSE NoMessage]
       IN  IF LookRedirects(path, queryCode)
           THEN look' = [look EXCEPT ![l] = [look[l] EXCEPT !.pc = "done",
                                                            !.status = "Redirect",
                                                            !.code = code]]
           ELSE IF code = <<>>
           THEN look' = [look EXCEPT ![l] = [data EXCEPT !.pc = "done",
                                                        !.status = "Rendered"]]
           ELSE look' = [look EXCEPT ![l] = [data EXCEPT !.pc = "query"]]
    /\ UNCHANGED <<now, config, voters, vote, admin>>

\* Faulty variant of LookupQuery: looking a code up redeems it.
LookupQueryConsumes(l) ==
    /\ look[l].pc = "query"
    /\ voters' = Redeem(voters, look[l].code, Setuju, now)
    /\ look' = [look EXCEPT ![l].pc = "done", ![l].status = "Rendered",
                            ![l].err = "ErrNoRows", ![l].seen = RowsOf(voters, look[l].code),
                            ![l].Message = Msg("Kode tidak ditemukan!", "")]
    /\ UNCHANGED <<now, config, vote, admin>>

\* The voters query returns a row or no row.
LookupQuery(l) ==
    /\ look[l].pc = "query"
    /\ LET found == RowsOf(voters, look[l].code)
           asked == [look[l] EXCEPT !.seen = found]
       IN  IF found = {}
           THEN look' = [look EXCEPT ![l] =
                            [asked EXCEPT !.pc = "done", !.status = "Rendered",
                                          !.err = "ErrNoRows",
                                          !.Message = Msg("Kode tidak ditemukan!", "")]]
           ELSE LET row == CHOOSE r \in found : TRUE
                    named == [asked EXCEPT !.err = "nil", !.Name = row.name]
                IN  IF row.used
                    THEN look' = [look EXCEPT ![l] =
                                     [named EXCEPT !.pc = "votes", !.AlreadyUsed = TRUE]]
                    ELSE look' = [look EXCEPT ![l] =
                                     [named EXCEPT
                                         !.pc = "done", !.status = "Rendered",
                                         !.Message =
                                             IF ~named.BeforeStart /\ ~named.AfterEnd
                                             THEN Msg("Selamat, %s! Silakan pilih.", row.name)
                                             ELSE named.Message]]
    /\ UNCHANGED <<now, config, voters, vote, admin>>

\* The voters query returns an error of the store: the handler takes every
\* error for "not found".
LookupQueryError(l) ==
    /\ look[l].pc = "query"
    /\ look' = [look EXCEPT ![l].pc = "done", ![l].status = "Rendered",
                            ![l].err = "error",
                            ![l].seen = RowsOf(voters, look[l].code),
                            ![l].Message = Msg("Kode tidak ditemukan!", "")]
    /\ UNCHANGED <<now, config, voters, vote, admin>>

\* The query on votes: HasVoted = (err == nil), and err is nil when a row
\* of votes has the code.
LookupVotes(l) ==
    /\ look[l].pc = "votes"
    /\ LET hasVoted == \E r \in votes : r.code = look[l].code
       IN  look' = [look EXCEPT
                       ![l].pc = "done", ![l].status = "Rendered",
                       ![l].HasVoted = hasVoted,
                       ![l].Message = IF hasVoted
                                      THEN Msg("Terima kasih telah memilih.", "")
                                      ELSE Msg("Kode sudah digunakan.", "")]
    /\ UNCHANGED <<now, config, voters, vote, admin>>

(* ------------------------------ adminHandler --------------------------- *)

\* SELECT COUNT(*) FROM voters
CountAll(v) == Len(v)

\* COUNT(*) FILTER (WHERE used = true)
CountUsed(v) == Cardinality({i \in DOMAIN v : v[i].used})

\* COUNT(*) FILTER (WHERE vote_choice = <choice>); NULL never equals.
CountChoice(v, choice) ==
    Cardinality({i \in DOMAIN v :
                    v[i].vote_choice.Valid /\ v[i].vote_choice.String = choice})

\* Faulty variant of NotVoted: the voted count is not subtracted.
NotVotedForgotten(total, voted) == total

\* notVotedCount := totalVoters - votedCount
NotVoted(total, voted) == total - voted

\* Faulty variant of Before: ORDER BY id.
BeforeById(r, q) == r.id < q.id

\* ORDER BY used_at NULLS LAST, id: r comes before q.
Before(r, q) ==
    IF r.used_at.Valid /\ q.used_at.Valid
    THEN \/ r.used_at.Time < q.used_at.Time
         \/ r.used_at.Time = q.used_at.Time /\ r.id < q.id
    ELSE IF r.used_at.Valid # q.used_at.Valid
    THEN r.used_at.Valid
    ELSE r.id < q.id

\* SELECT code, name, used, used_at, vote_choice FROM voters ORDER BY ...
ListAll(v) ==
    LET pos(i) == 1 + Cardinality({j \in DOMAIN v : Before(v[j], v[i])})
    IN  [k \in 1..Len(v) |->
            LET r == v[CHOOSE i \in DOMAIN v : pos(i) = k]
            IN  [Code |-> r.code, Name |-> r.name, Used |-> r.used,
                 UsedAt |-> r.used_at, Choice |-> r.vote_choice]]

IsUsed(info) == info.Used
IsNotUsed(info) == ~info.Used

\* Faulty variant of AdminAuth: the result of basicAuthValid is not tested.
AdminAuthUngated(req) ==
    /\ admin.pc = "idle"
    /\ admin' = [admin EXCEPT !.pc = "total", !.request = req]
    /\ UNCHANGED <<now, config, voters, vote, look>>

\* The request arrives and basicAuthValid decides it.
AdminAuth(req) ==
    /\ admin.pc = "idle"
    /\ IF ~basicAuthValid(req, adminUser, adminPass)
       THEN admin' = [admin EXCEPT !.pc = "done", !.status = "Unauthorized",
                                   !.request = req]
       ELSE admin' = [admin EXCEPT !.pc = "total", !.request = req]
    /\ UNCHANGED <<now, config, voters, vote, look>>

\* The first query: the total. usedAtTotal (not a variable of the code)
\* remembers how many rows were used when this query ran.
AdminTotal ==
    /\ admin.pc = "total"
    /\ admin' = [admin EXCEPT !.pc = "stats", !.TotalVoters = CountAll(voters),
                              !.usedAtTotal = CountUsed(voters),
                              !.queries = admin.queries + 1]
    /\ UNCHANGED <<now, config, voters, vote, look>>

\* The second query: the voted count and the two choice counts, then
\* notVotedCount.
AdminStats ==
    /\ admin.pc = "stats"
    /\ admin' = [admin EXCEPT
                    !.pc = "list", !.queries = admin.queries + 1,
                    !.VotedCount = CountUsed(voters),
                    !.SetujuCount = CountChoice(voters, Setuju),
                    !.TidakSetujuCount = CountChoice(voters, TidakSetuju),
                    !.NotVotedCount = NotVoted(admin.TotalVoters, CountUsed(voters))]
    /\ UNCHANGED <<now, config, voters, vote, look>>

\* The third query and the loop over its rows, then the template data.
AdminList ==
    /\ admin.pc = "list"
    /\ LET allVoters == ListAll(voters)
       IN  admin' = [admin EXCEPT
                        !.pc = "done", !.status = "OK",
                        !.queries = admin.queries + 1,
                        !.AllVoters = allVoters,
                        !.VotedVoters = SelectSeq(allVoters, IsUsed),
                        !.NotVotedVoters = SelectSeq(allVoters, IsNotUsed)]
    /\ UNCHANGED <<now, config, voters, vote, look>>

\* The third query returns its rows and Scan returns an error on the k-th.
\* The handler logs it and continues, but Scan of pgx v4 has closed the
\* rows with that error: rows.Next() is false, the loop ends with the rows
\* before the k-th in the lists, and rows.Err() returns the error, which
\* the handler answers with 500 "database error".
AdminListScanError(k) ==
    /\ admin.pc = "list"
    /\ k \in 1..Len(voters)
    /\ LET allVoters == SubSeq(ListAll(voters), 1, k - 1)
       IN  admin' = [admin EXCEPT
                        !.pc = "done", !.status = "DatabaseError",
                        !.queries = admin.queries + 1,
                        !.scanFailedAt = k,
                        !.AllVoters = allVoters,
                        !.VotedVoters = SelectSeq(allVoters, IsUsed),
                        !.NotVotedVoters = SelectSeq(allVoters, IsNotUsed)]
    /\ UNCHANGED <<now, config, voters, vote, look>>

\* One of the three queries returns an error.
AdminQueryError ==
    /\ admin.pc \in {"total", "stats", "list"}
    /\ admin' = [admin EXCEPT !.pc = "done", !.status = "DatabaseError",
                              !.queries = admin.queries + 1]
    /\ UNCHANGED <<now, config, voters, vote, look>>

(* ---------------------------- specifications -------------------------- *)

Next ==
    \/ Tick
    \/ \E h \in Handlers, m \in Methods : VoteBegin(h, m)
    \/ \E h \in Handlers, c \in RawCodes, ch \in RawChoices : VoteCheckEnd(h, c, ch)
    \/ \E h \in Handlers : VoteExec(h)
    \/ \E h \in Handlers, applied \in BOOLEAN : VoteExecError(h, applied)
    \/ \E h \in Handlers : VoteExists(h)
    \/ \E h \in Handlers : VoteExistsError(h)

\* The redemption path: concurrent /vote requests and the clock.
Spec == Init /\ [][Next]_vars

\* Termination: the form values that take a request down each path of the
\* handler (a provisioned code, an unknown one, a blank one).
LiveCodes == {Ht67h, ZZZZZ, <<" ", "\t">>}
LiveChoices == {Setuju}

\* What the handler of request h does after the request has arrived.
VoteStep(h) ==
    \/ \E c \in LiveCodes, ch \in LiveChoices : VoteCheckEnd(h, c, ch)
    \/ VoteExec(h)
    \/ \E applied \in BOOLEAN : VoteExecError(h, applied)
    \/ VoteExists(h)
    \/ VoteExistsError(h)

NextLive ==
    \/ Tick
    \/ \E h \in Handlers, m \in Methods : VoteBegin(h, m)
    \/ \E h \in Handlers : VoteStep(h)

\* The redemption path when every store call returns and every handler that
\* can go on does go on.
SpecLive == Init /\ [][NextLive]_vars /\ \A h \in Handlers : WF_vars(VoteStep(h))

\* The summary: one /admin request concurrent with /vote requests that
\* carry well-formed values inside an open window.
AdminCodes == {Ht67h, Ab12X}
AdminChoices == {Setuju, TidakSetuju, Abstain}
AdminRequests ==
    {BasicRequest(DefaultUser, DefaultPass), NoHeaderRequest(<<>>, <<>>),
     BasicRequest(DefaultUser, <<"b">>)}

InitAdmin ==
    /\ now = 0
    /\ voteStart = 0
    /\ voteEnd = MaxTime
    /\ adminUser = DefaultUser
    /\ adminPass = DefaultPass
    /\ voters = Provisioned
    /\ vote = [h \in Handlers |-> IdleVote]
    /\ admin = IdleAdmin
    /\ look = [l \in Lookups |-> IdleLook]

NextAdmin ==
    \/ Tick
    \/ \E h \in Handlers : VoteBegin(h, "POST")
    \/ \E h \in Handlers, c \in AdminCodes, ch \in AdminChoices : VoteCheckEnd(h, c, ch)
    \/ \E h \in Handlers : VoteExec(h)
    \/ \E h \in Handlers : VoteExists(h)
    \/ \E req \in AdminRequests : AdminAuth(req)
    \/ AdminTotal
    \/ AdminStats
    \/ AdminList
    \/ AdminQueryError

SpecAdmin == InitAdmin /\ [][NextAdmin]_vars

\* The summary when Scan can fail on a row of the list: one authorized
\* /admin request concurrent with /vote requests.
AuthorizedRequests == {BasicRequest(DefaultUser, DefaultPass)}
ScanChoices == {Setuju}

NextScan ==
    \/ Tick
    \/ \E h \in Handlers : VoteBegin(h, "POST")
    \/ \E h \in Handlers, c \in AdminCodes, ch \in ScanChoices : VoteCheckEnd(h, c, ch)
    \/ \E h \in Handlers : VoteExec(h)
    \/ \E h \in Handlers : VoteExists(h)
    \/ \E req \in AuthorizedRequests : AdminAuth(req)
    \/ AdminTotal
    \/ AdminStats
    \/ AdminList
    \/ \E k \in 1..NumVoters : AdminListScanError(k)
    \/ AdminQueryError

SpecScan == InitAdmin /\ [][NextScan]_vars

\* basicAuthValid alone: every configuration against every request.
InitAuth ==
    /\ now = 0
    /\ voteStart = 0
    /\ voteEnd = MaxTime
    /\ adminUser \in UserNames \cup {<<"a", ":">>}
    /\ adminPass \in Passwords
    /\ voters = Provisioned
    /\ vote = [h \in Handlers |-> IdleVote]
    /\ admin = IdleAdmin
    /\ look = [l \in Lookups |-> IdleLook]

NextAuth == \E req \in Requests : AdminAuth(req)

SpecAuth == InitAuth /\ [][NextAuth]_vars

\* The status page: / requests concurrent with /vote requests that carry
\* well-formed values inside an open window.
LookupCodes == {Ht67h}
LookupChoices == {Setuju, Abstain}

InitLookup ==
    /\ now = 0
    /\ voteStart = 0
    /\ voteEnd = MaxTime
    /\ adminUser = DefaultUser
    /\ adminPass = DefaultPass
    /\ voters = Provisioned
    /\ vote = [h \in Handlers |-> IdleVote]
    /\ admin = IdleAdmin
    /\ look = [l \in Lookups |-> IdleLook]

NextLookup ==
    \/ \E h \in Handlers : VoteBegin(h, "POST")
    \/ \E h \in Handlers, c \in LookupCodes, ch \in LookupChoices : VoteCheckEnd(h, c, ch)
    \/ \E h \in Handlers : VoteExec(h)
    \/ \E h \in Handlers : VoteExists(h)
    \/ \E l \in Lookups, path \in LookPaths, q \in LookQueryCodes : LookupBegin(l, path, q)
    \/ \E l \in Lookups : LookupQuery(l)
    \/ \E l \in Lookups : LookupQueryError(l)
    \/ \E l \in Lookups : LookupVotes(l)

SpecLookup == InitLookup /\ [][NextLookup]_vars

\* Every operation together: two /vote requests with all their outcomes,
\* one /admin request and one / request, and the clock.
FrameHandlers == {1, 2}
FrameCodes == {Ht67h, ZZZZZ, <<" ", "\t">>}
FrameChoices == {Abstain}
FrameLookup == 1

NextFrame ==
    \/ Tick
    \/ \E h \in FrameHandlers : VoteBegin(h, "POST")
    \/ \E h \in FrameHandlers, c \in FrameCodes, ch \in FrameChoices : VoteCheckEnd(h, c, ch)
    \/ \E h \in FrameHandlers : VoteExec(h)
    \/ \E h \in FrameHandlers, applied \in BOOLEAN : VoteExecError(h, applied)
    \/ \E h \in FrameHandlers : VoteExists(h)
    \/ \E h \in FrameHandlers : VoteExistsError(h)
    \/ \E req \in AuthorizedRequests : AdminAuth(req)
    \/ AdminTotal
    \/ AdminStats
    \/ AdminList
    \/ AdminQueryError
    \/ \E q \in {Ht67h, ZZZZZ} : LookupBegin(FrameLookup, <<>>, q)
    \/ LookupQuery(FrameLookup)
    \/ LookupQueryError(FrameLookup)
    \/ LookupVotes(FrameLookup)

SpecFrame == Init /\ [][NextFrame]_vars

(* ------------------------------ properties ----------------------------- *)

\* The codes a /vote request can carry after trimming.
Codes == {TrimSpace(c) : c \in RawCodes} \ {<<>>}

\* The voters table holds a row with code c.
HasRow(c) == \E i \in DOMAIN voters : voters[i].code = c

Done(h) == vote[h].pc = "done"
Outcome(h) == vote[h].outcome

\* The requests on code c whose conditional write returned RowsAffected = 1.
Successes(c) == {h \in Handlers : Done(h) /\ Outcome(h) = "Success" /\ vote[h].code = c}

\* The request's conditional write returned without a store error.
ExecReturned(h) ==
    \/ vote[h].pc = "exists"
    \/ Done(h) /\ Outcome(h) \in {"Success", "AlreadyUsed", "CodeNotFound"}

\* No request on code c met a store error.
NoStoreError(c) ==
    \A h \in Handlers : vote[h].code = c => Outcome(h) # "StoreError"

\* C1: exactly-once redemption. For every code, at most one /vote request
\* ends in Success, however the requests interleave; and when the code is
\* provisioned, no request on it met a store error and the conditional
\* write of at least one request on it has returned, exactly one request
\* has ended in Success.
C1_ExactlyOnce ==
    \A c \in Codes :
        /\ Cardinality(Successes(c)) <= 1
        /\ ( /\ HasRow(c)
             /\ NoStoreError(c)
             /\ \E h \in Handlers : vote[h].code = c /\ ExecReturned(h) )
           => Cardinality(Successes(c)) = 1

\* Two requests on the same provisioned code both got through the store:
\* one won, the other was refused.
C1_Witness ==
    \E h1, h2 \in Handlers :
        /\ h1 # h2
        /\ vote[h1].code = Ht67h /\ vote[h2].code = Ht67h
        /\ Done(h1) /\ Outcome(h1) = "Success"
        /\ Done(h2) /\ Outcome(h2) = "AlreadyUsed"

\* C2: no request on a provisioned code ever reports CodeNotFound, and among
\* the requests on a provisioned code that finished without a store error
\* after reaching the store, every one but the single winner reports
\* AlreadyUsed.
C2_LosersAlreadyUsed ==
    /\ \A h \in Handlers :
          (Done(h) /\ HasRow(vote[h].code)) => Outcome(h) # "CodeNotFound"
    /\ \A c \in Codes :
          (HasRow(c) /\ NoStoreError(c)) =>
              \A h1, h2 \in Handlers :
                  ( /\ h1 # h2
                    /\ Done(h1) /\ vote[h1].code = c /\ ExecReturned(h1)
                    /\ Done(h2) /\ vote[h2].code = c /\ ExecReturned(h2) )
                  => \/ Outcome(h1) = "Success" /\ Outcome(h2) = "AlreadyUsed"
                     \/ Outcome(h1) = "AlreadyUsed" /\ Outcome(h2) = "Success"
                     \/ Outcome(h1) = "AlreadyUsed" /\ Outcome(h2) = "AlreadyUsed"

\* Every request was a submit on the same provisioned code, all finished
\* without a store error: one Success, the others AlreadyUsed.
C2_Witness ==
    /\ \A h \in Handlers :
          /\ Done(h) /\ vote[h].code = Ht67h
          /\ Outcome(h) \in {"Success", "AlreadyUsed"}
    /\ \E h \in Handlers : Outcome(h) = "Success"
    /\ \E h \in Handlers : Outcome(h) = "AlreadyUsed"

\* C3: in every state of the voters table, for every row, used = true iff
\* used_at is non-null iff vote_choice is non-null.
C3_UsedIffUsedAtIffChoice ==
    \A i \in DOMAIN voters :
        /\ voters[i].used <=> voters[i].used_at.Valid
        /\ voters[i].used_at.Valid <=> voters[i].vote_choice.Valid

\* A redeemed row beside a row not yet redeemed.
C3_Witness ==
    /\ \E i \in DOMAIN voters :
          voters[i].used /\ voters[i].used_at.Valid /\ voters[i].vote_choice.Valid
    /\ \E i \in DOMAIN voters : ~voters[i].used

\* The step in which request h evaluates a window check at the instant now.
ChecksStart(h) == vote[h].pc = "idle" /\ vote'[h].pc # "idle"
                  /\ vote'[h].outcome # "MethodNotAllowed"
ChecksEnd(h) == vote[h].pc = "checkEnd" /\ vote'[h].pc # "checkEnd"

\* C4: the window is the half-open interval [start, end). A submit whose
\* window check is evaluated at now < start or at now >= end (now = end
\* included) is rejected with WindowClosed, and one evaluated at
\* start <= now < end is not rejected by the window.
C4_HalfOpenWindow ==
    [][\A h \in Handlers :
          /\ (ChecksStart(h) /\ now < voteStart) => vote'[h].outcome = "WindowClosed"
          /\ (ChecksEnd(h) /\ now >= voteEnd) => vote'[h].outcome = "WindowClosed"
          /\ ((ChecksStart(h) \/ ChecksEnd(h)) /\ voteStart <= now /\ now < voteEnd)
                => vote'[h].outcome # "WindowClosed"]_vars

\* The persisted choice of code c is choice.
Persisted(c, choice) ==
    \E i \in DOMAIN voters :
        /\ voters[i].code = c /\ voters[i].used
        /\ voters[i].vote_choice = StringOf(choice)

\* C5: redemption is irreversible and first-writer-wins. A row with
\* used = true is the same row in every later state, whatever requests
\* follow; and the persisted choice of a code is the choice of the request
\* that ended in Success for it.
C5_Irreversible ==
    /\ [](\A h \in Handlers :
            (Done(h) /\ Outcome(h) = "Success") => Persisted(vote[h].code, vote[h].choice))
    /\ [][\A i \in DOMAIN voters : voters[i].used => voters'[i] = voters[i]]_vars

\* A second request with another choice was refused after the first won,
\* and the winner's choice is the persisted one.
C5_Witness ==
    \E h1, h2 \in Handlers :
        /\ Done(h1) /\ Outcome(h1) = "Success"
        /\ Done(h2) /\ Outcome(h2) = "AlreadyUsed"
        /\ vote[h1].code = vote[h2].code
        /\ vote[h1].choice # vote[h2].choice
        /\ Persisted(vote[h1].code, vote[h1].choice)

\* The number of entries of a voter list with the given choice.
Tally(list, choice) ==
    Cardinality({k \in DOMAIN list : list[k].Choice = StringOf(choice)})

\* C6: every summary is a point-in-time snapshot. TotalVoters is the length
\* of AllVoters, VotedCount the length of VotedVoters, NotVotedCount the
\* length of NotVotedVoters, and the choice counts are the counts of the
\* choices in VotedVoters.
C6_Snapshot ==
    admin.status = "OK" =>
        /\ admin.TotalVoters = Len(admin.AllVoters)
        /\ admin.VotedCount = Len(admin.VotedVoters)
        /\ admin.NotVotedCount = Len(admin.NotVotedVoters)
        /\ admin.SetujuCount = Tally(admin.VotedVoters, Setuju)
        /\ admin.TidakSetujuCount = Tally(admin.VotedVoters, TidakSetuju)

\* C7: in every summary the per-choice tallies sum to VotedCount, whatever
\* non-empty choices the successful submits carried.
C7_TalliesSumToVoted ==
    admin.status = "OK" =>
        admin.SetujuCount + admin.TidakSetujuCount = admin.VotedCount

\* C8: in every summary VotedCount + NotVotedCount = TotalVoters and
\* 0 <= VotedCount <= TotalVoters, also when a redemption commits between
\* the query of the total and the query of the voted count.
C8_CountsAddUp ==
    admin.pc \in {"list", "done"} /\ admin.status # "DatabaseError" /\ admin.status # "Unauthorized" =>
        /\ admin.VotedCount + admin.NotVotedCount = admin.TotalVoters
        /\ 0 <= admin.VotedCount
        /\ admin.VotedCount <= admin.TotalVoters

\* A summary whose voted count saw a redemption the total's query had not.
C8_Witness ==
    /\ admin.status = "OK"
    /\ admin.VotedCount > admin.usedAtTotal
    /\ admin.NotVotedCount > 0

\* basicAuthValid returned true for the /admin request.
Authorized == admin.pc # "idle" /\ admin.status # "Unauthorized"

\* C9: access control fails closed. basicAuthValid returns false whenever
\* the configured user or the configured password is empty, whatever the
\* request carries; and it returns true only when the user and the
\* password the request presents are the configured, non-empty ones.
C9_FailClosed ==
    admin.pc # "idle" =>
        /\ (adminUser = <<>> \/ adminPass = <<>>) => ~Authorized
        /\ Authorized =>
              /\ adminUser # <<>> /\ adminPass # <<>>
              /\ admin.request.user = adminUser
              /\ admin.request.pass = adminPass

\* Nothing is configured and the request presents an empty user and an
\* empty password in a well-formed header: refused.
C9_Witness ==
    /\ adminUser = <<>> /\ adminPass = <<>>
    /\ admin.request = BasicRequest(<<>>, <<>>)
    /\ admin.pc = "done" /\ admin.status = "Unauthorized"

\* C10: after a conditional write that affected no row, the request reports
\* CodeNotFound exactly when no row has the code and AlreadyUsed exactly
\* when one has; a row reported AlreadyUsed has used = true; and a request
\* on a never provisioned code that gets through the store without an error
\* reports CodeNotFound.
C10_NotFoundOrUsed ==
    \A h \in Handlers :
        Done(h) =>
            /\ Outcome(h) = "CodeNotFound" => ~HasRow(vote[h].code)
            /\ Outcome(h) = "AlreadyUsed" =>
                  \E i \in DOMAIN voters : voters[i].code = vote[h].code /\ voters[i].used
            /\ (ExecReturned(h) /\ ~HasRow(vote[h].code))
                  => Outcome(h) = "CodeNotFound"

\* A request on a never provisioned code was answered CodeNotFound while
\* another code of the table had been redeemed.
C10_Witness ==
    /\ \E h \in Handlers :
          Done(h) /\ vote[h].code = ZZZZZ /\ Outcome(h) = "CodeNotFound"
    /\ \E i \in DOMAIN voters : voters[i].used

\* C12: redemption happens only inside the window. Every row with
\* used = true carries a used_at, the instant its conditional write was
\* applied, with start <= used_at < end, also when the clock advances
\* between the window checks of the request and the write of the store.
C12_UsedAtInsideWindow ==
    \A i \in DOMAIN voters :
        voters[i].used =>
            /\ voters[i].used_at.Valid
            /\ voteStart <= voters[i].used_at.Time
            /\ voters[i].used_at.Time < voteEnd

\* s without the white space around it, by position: the part of s from its
\* first to its last character that is not white space.
Stripped(s) ==
    LET solid == {k \in DOMAIN s : s[k] \notin {" ", "\t", "\n"}}
    IN  IF solid = {} THEN <<>>
        ELSE SubSeq(s, CHOOSE k \in solid : \A j \in solid : k <= j,
                       CHOOSE k \in solid : \A j \in solid : j <= k)

\* C15: a store error on the redemption path ends the request with
\* StoreError. A request whose conditional UPDATE or whose EXISTS query
\* returned an error is answered StoreError, never Success, CodeNotFound or
\* AlreadyUsed, and issues no further store call; only such a request is
\* answered StoreError; and no request issues more than one conditional
\* write or more than one exists query.
C15_StoreErrorSurfaced ==
    \A h \in Handlers :
        /\ vote[h].err => Done(h) /\ Outcome(h) = "StoreError"
        /\ Outcome(h) = "StoreError" => vote[h].err
        /\ vote[h].writes <= 1
        /\ vote[h].queries <= 1
        /\ vote[h].queries = 1 => vote[h].writes = 1

\* One request was answered StoreError by its exists query, another by a
\* conditional write that the store had applied all the same.
C15_Witness ==
    /\ \E h \in Handlers :
          Done(h) /\ Outcome(h) = "StoreError" /\ vote[h].queries = 1
    /\ \E h \in Handlers :
          /\ Done(h) /\ Outcome(h) = "StoreError" /\ vote[h].queries = 0
          /\ \E i \in DOMAIN voters : voters[i].code = vote[h].code /\ voters[i].used

\* C17: the checks of a submit come in a fixed order, window, validation,
\* store. A submit whose window check is evaluated outside [start, end) is
\* answered WindowClosed whatever its code and choice, empty ones included;
\* a submit inside the window with an empty trimmed code or choice is
\* answered InvalidInput; a submit answered WindowClosed or InvalidInput has
\* made no store call; and the code and the choice that are tested and
\* written are the form values without their surrounding white space.
C17_ChecksInOrder ==
    /\ [](\A h \in Handlers :
            /\ Outcome(h) \in {"WindowClosed", "InvalidInput"} =>
                  vote[h].writes = 0 /\ vote[h].queries = 0
            /\ vote[h].pc \in {"exec", "exists"} \/ Outcome(h) = "InvalidInput"
                  => /\ vote[h].code = Stripped(vote[h].rawCode)
                     /\ vote[h].choice = Stripped(vote[h].rawChoice)
            /\ vote[h].pc \in {"exec", "exists"} =>
                  vote[h].code # <<>> /\ vote[h].choice # <<>>)
    /\ [][\A h \in Handlers :
            /\ ChecksStart(h) /\ now < voteStart => vote'[h].outcome = "WindowClosed"
            /\ ChecksEnd(h) /\ now >= voteEnd => vote'[h].outcome = "WindowClosed"
            /\ (ChecksEnd(h) /\ now < voteEnd
                  /\ (Stripped(vote'[h].rawCode) = <<>> \/ Stripped(vote'[h].rawChoice) = <<>>))
                  => vote'[h].outcome = "InvalidInput"]_vars

\* The position of a /vote request in its handler.
Rank(pc) ==
    CASE pc = "idle" -> 0
      [] pc = "checkEnd" -> 1
      [] pc = "exec" -> 2
      [] pc = "exists" -> 3
      [] pc = "done" -> 4

SubmitOutcomes ==
    {"Success", "WindowClosed", "InvalidInput", "CodeNotFound", "AlreadyUsed", "StoreError"}

\* C19: every submit ends with exactly one outcome. A POST request that has
\* arrived is eventually answered, given that its store calls return; it is
\* answered with one of Success, WindowClosed, InvalidInput, CodeNotFound,
\* AlreadyUsed and StoreError, has no outcome before it is answered and
\* keeps the one it got; every step of its handler moves it forward, so
\* there is no retry loop; and a handler that has not answered can always
\* take its next step, whatever the other requests are doing.
C19_Terminates ==
    /\ [](\A h \in Handlers :
            /\ ~Done(h) => Outcome(h) = "none"
            /\ Done(h) => Outcome(h) \in SubmitOutcomes \cup {"MethodNotAllowed"}
            /\ vote[h].pc \in {"checkEnd", "exec", "exists"} => ENABLED <<VoteStep(h)>>_vars)
    /\ [][\A h \in Handlers :
            /\ vote'[h] # vote[h] => Rank(vote'[h].pc) > Rank(vote[h].pc)
            /\ vote[h].pc \in {"checkEnd", "exec", "exists"} /\ Done(h)'
                  => Outcome(h)' \in SubmitOutcomes]_vars
    /\ \A h \in Handlers : vote[h].pc \in {"checkEnd", "exec", "exists"} ~> Done(h)

\* Two requests on the same code were in flight together and both were
\* answered: one with Success, the other with AlreadyUsed.
C19_Witness ==
    \E g, h \in Handlers :
        /\ g # h /\ vote[g].code = vote[h].code
        /\ Done(g) /\ Outcome(g) = "Success" /\ vote[g].writes = 1
        /\ Done(h) /\ Outcome(h) = "AlreadyUsed" /\ vote[h].queries = 1

\* The zero values of everything an /admin request computes from the store.
NothingRead ==
    /\ admin.TotalVoters = 0 /\ admin.VotedCount = 0 /\ admin.NotVotedCount = 0
    /\ admin.SetujuCount = 0 /\ admin.TidakSetujuCount = 0
    /\ admin.AllVoters = <<>> /\ admin.VotedVoters = <<>> /\ admin.NotVotedVoters = <<>>

\* C16: the summary is gated by authorize. An /admin request that has
\* issued a query, or holds a count or a row, or was answered with the
\* summary or with a database error, presented the configured, non-empty
\* user and password in a Basic header; a request answered Unauthorized
\* issued no query and holds no count and no row.
C16_SummaryGated ==
    /\ admin.pc = "idle" => admin.queries = 0 /\ NothingRead
    /\ admin.status = "Unauthorized" =>
          admin.pc = "done" /\ admin.queries = 0 /\ NothingRead
    /\ (admin.queries > 0 \/ ~NothingRead
            \/ admin.pc \in {"total", "stats", "list"}
            \/ admin.status \in {"OK", "DatabaseError"})
          => /\ adminUser # <<>> /\ adminPass # <<>>
             /\ admin.request.prefix = "Basic "
             /\ admin.request.user = adminUser
             /\ admin.request.pass = adminPass

\* A request with the right user and a wrong password was refused while the
\* table held a redeemed row.
C16_Witness ==
    /\ admin.status = "Unauthorized"
    /\ admin.request.prefix = "Basic "
    /\ admin.request.user = adminUser /\ admin.request.pass # adminPass
    /\ \E i \in DOMAIN voters : voters[i].used

\* The id of the row with code c.
IdOf(c) == CHOOSE n \in 1..Len(voters) : voters[n].code = c

\* The rows of list with Used = used, in the order of list.
RECURSIVE Subsequence(_, _)
Subsequence(list, used) ==
    IF list = <<>> THEN <<>>
    ELSE (IF Head(list).Used = used THEN <<Head(list)>> ELSE <<>>)
            \o Subsequence(Tail(list), used)

\* a is listed before b: by redemption time, a redeemed row before one never
\* redeemed, equal or absent times by id.
ListedBefore(a, b) ==
    \/ a.UsedAt.Valid /\ ~b.UsedAt.Valid
    \/ a.UsedAt.Valid /\ b.UsedAt.Valid /\ a.UsedAt.Time < b.UsedAt.Time
    \/ a.UsedAt.Valid /\ b.UsedAt.Valid /\ a.UsedAt.Time = b.UsedAt.Time
          /\ IdOf(a.Code) < IdOf(b.Code)
    \/ ~a.UsedAt.Valid /\ ~b.UsedAt.Valid /\ IdOf(a.Code) < IdOf(b.Code)

\* C18: the list of a summary is ordered by redemption time ascending, the
\* voters who have not voted last, ties by id; it holds every voter once;
\* and VotedVoters and NotVotedVoters are the used and the unused rows of
\* AllVoters in the order of AllVoters, so that every row is in exactly one.
C18_ListOrdered ==
    admin.status = "OK" =>
        /\ \A j, k \in DOMAIN admin.AllVoters :
              j < k => ListedBefore(admin.AllVoters[j], admin.AllVoters[k])
        /\ Len(admin.AllVoters) = Len(voters)
        /\ {admin.AllVoters[k].Code : k \in DOMAIN admin.AllVoters}
              = {voters[i].code : i \in DOMAIN voters}
        /\ admin.VotedVoters = Subsequence(admin.AllVoters, TRUE)
        /\ admin.NotVotedVoters = Subsequence(admin.AllVoters, FALSE)

\* A summary whose list differs from the order of the ids: the second voter
\* redeemed before the first, both are listed as voted.
C18_Witness ==
    /\ admin.status = "OK"
    /\ Len(admin.VotedVoters) = 2
    /\ admin.AllVoters[1].Code = Ab12X /\ admin.AllVoters[2].Code = Ht67h
    /\ admin.AllVoters[1].UsedAt.Time < admin.AllVoters[2].UsedAt.Time

\* C20: a scan failure on one row does not abort the summary. When Scan
\* fails on a row of the list, that row is skipped, every other row is
\* placed in AllVoters and in its sublist, and the summary is returned.
C20_ScanFailureSkipsRow ==
    (admin.pc = "done" /\ admin.scanFailedAt > 0) =>
        /\ admin.status = "OK"
        /\ Len(admin.AllVoters) = Len(voters) - 1
        /\ Len(admin.VotedVoters) + Len(admin.NotVotedVoters) = Len(admin.AllVoters)

\* Lookup l has run its voters query and rendered the page.
Looked(l) == look[l].pc = "done" /\ look[l].err # "none"

\* The tri-state of a rendered lookup: the handler takes the branch "not
\* found" when the voters query returned anything but a row.
NotFound(l) == look[l].err # "nil"
Unused(l, name) == look[l].err = "nil" /\ ~look[l].AlreadyUsed /\ look[l].Name = name
Used(l, name) == look[l].err = "nil" /\ look[l].AlreadyUsed /\ look[l].Name = name

\* C13: lookup reflects the latest committed state as a tri-state. A lookup
\* whose voters query returned without a store error reports NotFound when
\* no row had the code, Unused(name) when the row had used = false, and
\* Used(name) when it had used = true; and a lookup that found the row
\* used, as every lookup after a Success on the code does, reports the
\* voter as having voted.
C13_LookupTriState ==
    \A l \in Lookups :
        (Looked(l) /\ look[l].err # "error") =>
            /\ look[l].seen = {} => NotFound(l)
            /\ \A r \in look[l].seen :
                  /\ ~r.used => Unused(l, r.name)
                  /\ r.used => Used(l, r.name) /\ look[l].HasVoted

\* C14: lookup is an idempotent read. Any two lookups of a code that found
\* the same row state report the same status (found or not found), the same
\* name and the same used flag; and no step of a lookup changes the voters
\* table.
C14_IdempotentRead ==
    /\ [](\A k, l \in Lookups :
            (Looked(k) /\ Looked(l) /\ look[k].code = look[l].code
                /\ look[k].seen = look[l].seen)
            => /\ NotFound(k) = NotFound(l)
               /\ look[k].Name = look[l].Name
               /\ look[k].AlreadyUsed = look[l].AlreadyUsed)
    /\ [][look' # look => voters' = voters]_vars

\* Request h is at its conditional write and this step ends it with Success
\* or with a store error.
WriteReturns(h) ==
    /\ vote[h].pc = "exec"
    /\ vote'[h].pc = "done"
    /\ vote'[h].outcome \in {"Success", "StoreError"}

\* Row i differs at most in used, used_at and vote_choice after the step.
OnlyRedeemed(i) ==
    /\ voters'[i].id = voters[i].id
    /\ voters'[i].code = voters[i].code
    /\ voters'[i].name = voters[i].name

\* C11: frame. No operation adds or deletes a row or changes an id, a code
\* or a name; no step of a lookup or of a summary changes a row; a row
\* changes only in the step in which the conditional write of a submit
\* returns, the submit then ends in Success or in StoreError and not in
\* WindowClosed, InvalidInput, CodeNotFound or AlreadyUsed, and the one row
\* that changes is the row with the code of that submit, in its used,
\* used_at and vote_choice only; and the step that ends a submit in Success
\* changes exactly that row.
C11_Frame ==
    /\ [](/\ DOMAIN voters = 1..NumVoters
          /\ \A i \in DOMAIN voters :
                /\ voters[i].id = i
                /\ voters[i].code = Seed[i].code
                /\ voters[i].name = Seed[i].name)
    /\ [][/\ (admin' # admin \/ look' # look) => voters' = voters
          /\ \A h \in Handlers :
                (vote'[h] # vote[h] /\ ~WriteReturns(h)) => voters' = voters
          /\ voters' # voters =>
                \E h \in Handlers :
                    /\ WriteReturns(h)
                    /\ \A i \in DOMAIN voters :
                          /\ OnlyRedeemed(i)
                          /\ voters'[i] # voters[i] => voters[i].code = vote[h].code
          /\ \A h \in Handlers :
                (WriteReturns(h) /\ vote'[h].outcome = "Success") =>
                    Cardinality({i \in DOMAIN voters : voters'[i] # voters[i]}) = 1]_vars

\* One submit ended in Success and another on the same code in AlreadyUsed,
\* a lookup of the code found the row used and a summary was returned.
C11_Witness ==
    /\ \E g, h \in Handlers :
          /\ Done(g) /\ Outcome(g) = "Success"
          /\ Done(h) /\ Outcome(h) = "AlreadyUsed" /\ vote[h].code = vote[g].code
    /\ look[FrameLookup].pc = "done" /\ look[FrameLookup].AlreadyUsed
    /\ admin.status = "OK" /\ Len(admin.VotedVoters) = 1

====
